---- MODULE Spec2Model ----
(***************************************************************************)
(* SimpleRTree: a static R-tree over 2D points, bulk-loaded with OMT and    *)
(* queried for the nearest point (RTree.go).                                *)
(*                                                                          *)
(* Coordinates are small integers, so every squared distance the code       *)
(* computes in float64 is an exact integer here.  math.Inf(1) is Inf, a     *)
(* value above every squared distance of the bounded inputs; math.Sqrt is   *)
(* the symbolic Sqrt, strictly monotone like the float one on these values. *)
(* math.Ceil(math.Log(N)/math.Log(M)) is evaluated exactly (CeilLog); the   *)
(* float quotient can round above an integer when N is an exact power of M. *)
(***************************************************************************)
EXTENDS Integers, Sequences, FiniteSets, TLC

\* ---------------------------------------------------------------- bounds
MaxCoord == 2
MaxFanout == 3
MaxPoints == 3
MaxShapePoints == 7
MaxQueryPoints == 3
MaxDeepPoints == 5
MaxRadius == 1

\* ------------------------------------------------------------- constants
MAX_POSSIBLE_ENTRIES == 9
Nil == -1

Coords == 0 .. MaxCoord
Grid == Coords \X Coords
QueryXs == 0 .. (MaxCoord + 1)
QueryYs == {0, 1}
Inf == 2 * (MaxCoord + 4) * (MaxCoord + 4) + 1

\* ------------------------------------------------------------ arithmetic
RECURSIVE Pow(_, _)
Pow(b, e) == IF e <= 0 THEN 1 ELSE b * Pow(b, e - 1)

CeilDiv(a, b) == (a + b - 1) \div b

\* math.Ceil(math.Log(n) / math.Log(m)): the least h with m^h >= n
RECURSIVE CeilLogFrom(_, _, _)
CeilLogFrom(m, n, h) == IF Pow(m, h) >= n THEN h ELSE CeilLogFrom(m, n, h + 1)
CeilLog(m, n) == CeilLogFrom(m, n, 0)

\* math.Ceil(math.Sqrt(m)): the least k with k*k >= m
RECURSIVE CeilSqrtFrom(_, _)
CeilSqrtFrom(m, k) == IF k * k >= m THEN k ELSE CeilSqrtFrom(m, k + 1)
CeilSqrt(m) == CeilSqrtFrom(m, 0)

minInt(a, b) == IF a < b THEN a ELSE b

sortFloats(x1, x2) == IF x1 > x2 THEN <<x2, x1>> ELSE <<x1, x2>>

computeSize(n) == 2 * n

Sqrt(v) == [sqrtOf |-> v]

\* ------------------------------------------------------------ FlatPoints
Len_(fp) == Len(fp)
GetPointAt(fp, i) == fp[i + 1]

\* --------------------------------------------------------------- BBox
ZeroBBox == [MinX |-> 0, MinY |-> 0, MaxX |-> 0, MaxY |-> 0]

extend(b1, b2) ==
    [MinX |-> IF b2.MinX < b1.MinX THEN b2.MinX ELSE b1.MinX,
     MinY |-> IF b2.MinY < b1.MinY THEN b2.MinY ELSE b1.MinY,
     MaxX |-> IF b2.MaxX > b1.MaxX THEN b2.MaxX ELSE b1.MaxX,
     MaxY |-> IF b2.MaxY > b1.MaxY THEN b2.MaxY ELSE b1.MaxY]

\* --------------------------------------------------------------- Node
\* The zero value of a Node, with the fields a literal sets.  children is the
\* fixed array [MAX_POSSIBLE_ENTRIES]int: entry k of the array is children[k+1].
NewNode(start, end, height, isLeaf, bbox) ==
    [children |-> [k \in 1 .. MAX_POSSIBLE_ENTRIES |-> 0],
     childrenLength |-> 0,
     height |-> height,
     isLeaf |-> isLeaf,
     start |-> start,
     end |-> end,
     BBox |-> bbox]

\* r.nodes[i]
NodeAt(ns, i) == ns[i + 1]

VARIABLES
    options,            \* r.options.MAX_ENTRIES
    nodes,              \* r.nodes, the arena
    nodesCap,           \* cap(r.nodes)
    points,             \* r.points
    built,              \* r.built
    queueItemPoolPool,  \* r.queueItemPoolPool: the inner pools in the registry
    queuePool,          \* r.queuePool: the queues in the registry
    pc,                 \* where the caller's goroutine is
    bld,                \* locals of build: i, nodesRemaining, isSorted
    qry,                \* locals of findNearestPointWithin
    sq,                 \* the borrowed priority queue: the items in it
    pool,               \* the borrowed item pool: free items, item fields
    result,             \* what the last query returned
    lastLoad            \* what the last load call was given and did, until a
                        \* query starts searching; builds counts the builds

vars == <<options, nodes, nodesCap, points, built, queueItemPoolPool, queuePool,
          pc, bld, qry, sq, pool, result, lastLoad>>

treeVars == <<nodes, nodesCap, points, built>>
poolVars == <<queueItemPoolPool, queuePool>>
queryVars == <<qry, sq, pool, result>>

NoBuild == [i |-> 0, nodesRemaining |-> 0, isSorted |-> FALSE]
NoQuery == [x |-> 0, y |-> 0, radius |-> Nil, minItem |-> Nil,
            distanceLowerBound |-> Inf, distanceUpperBound |-> Inf,
            item |-> Nil, i |-> 0]
\* node and distance are the fields of the pool's items; taken, given and
\* misuse count the take and giveBack calls of the query that borrowed it
NoPool == [free |-> {}, size |-> 0, node |-> <<>>, distance |-> <<>>,
           taken |-> 0, given |-> 0, misuse |-> FALSE]
\* the named results x1, y1, d1, found, with the arguments of the call
NoResult == [found |-> FALSE, x1 |-> 0, y1 |-> 0, d1 |-> Sqrt(0),
             x |-> 0, y |-> 0, radius |-> Nil, status |-> "none", drained |-> 0]
NoLoad == [builds |-> 0, len |-> 0, wasBuilt |-> FALSE, outcome |-> "none"]

\* NewWithOptions: a tree with a fan-out of 2 .. MaxFanout and nothing loaded
Init ==
    /\ options \in [MAX_ENTRIES : 2 .. MaxFanout]
    /\ nodes = <<>>
    /\ nodesCap = 0
    /\ points = <<>>
    /\ built = FALSE
    /\ queueItemPoolPool = <<>>
    /\ queuePool = <<>>
    /\ pc = "idle"
    /\ bld = NoBuild
    /\ qry = NoQuery
    /\ sq = {}
    /\ pool = NoPool
    /\ result = NoResult
    /\ lastLoad = NoLoad

\* ------------------------------------------------------------ inputs
LexLeq(p, q) == p[1] < q[1] \/ (p[1] = q[1] /\ p[2] <= q[2])

\* Sequences of n of the cells in X order (ties in Y order).  The sorters
\* below depend on the points of a range, not on their order, so one
\* ordering of each multiset of points is loaded.
RECURSIVE OrderedSeqs(_, _)
OrderedSeqs(cells, n) ==
    IF n = 0 THEN {<<>>}
    ELSE {Append(sp[1], sp[2]) :
            sp \in {c \in OrderedSeqs(cells, n - 1) \X cells :
                      Len(c[1]) = 0 \/ LexLeq(c[1][Len(c[1])], c[2])}}

GridInputs == UNION {OrderedSeqs(Grid, n) : n \in 0 .. MaxPoints}

\* n points of the grid, all different (column by column), or all the same
Distinct(n) == [k \in 1 .. n |-> <<(k - 1) \div (MaxCoord + 1), (k - 1) % (MaxCoord + 1)>>]
Coincident(n) == [k \in 1 .. n |-> <<0, 0>>]
ShapeInputs ==
    {Distinct(n) : n \in 0 .. minInt(MaxShapePoints, (MaxCoord + 1) * (MaxCoord + 1))}
      \cup {Coincident(n) : n \in 0 .. MaxShapePoints}

\* every point set of the grid up to MaxPoints, and some larger ones
BuildInputs == GridInputs \cup ShapeInputs

\* points on the line y = 0
Line == Coords \X {0}
QueryInputs == UNION {OrderedSeqs(Line, n) : n \in 0 .. MaxQueryPoints}
DeepInputs == UNION {OrderedSeqs(Line, n) : n \in 0 .. MaxDeepPoints}

\* what a built tree is given: it reads nothing of it but its length
ReloadInputs == {<<>>, <<<<0, 0>>>>, <<<<0, 0>>, <<MaxCoord, MaxCoord>>>>}

\* ------------------------------------------------------- xSorter, ySorter
Key(p, axis) == IF axis = "x" THEN p[1] ELSE p[2]

\* the entries of seq at the positions in S, in their order, from position i on
RECURSIVE Pick(_, _, _)
Pick(seq, S, i) ==
    IF i > Len(seq) THEN <<>>
    ELSE (IF i \in S THEN <<seq[i]>> ELSE <<>>) \o Pick(seq, S, i + 1)

\* Every way to split seq into buckets of bucketSize with each point of a
\* bucket <= each point of the next on the axis; points equal on the axis may
\* land in either bucket.  Within a bucket the points keep their order.
RECURSIVE BucketOrders(_, _, _)
BucketOrders(seq, bucketSize, axis) ==
    IF Len(seq) <= bucketSize THEN {seq}
    ELSE LET all == 1 .. Len(seq)
             firsts == {S \in SUBSET all :
                          /\ Cardinality(S) = bucketSize
                          /\ \A i \in S, j \in all \ S :
                                Key(seq[i], axis) <= Key(seq[j], axis)}
         IN UNION {{Pick(seq, S, 1) \o rest :
                      rest \in BucketOrders(Pick(seq, all \ S, 1), bucketSize, axis)} :
                   S \in firsts}

\* sorter.Sort() on points[start, end): the point sequences it may leave
Sort(pts, start, end, bucketSize, axis) ==
    {SubSeq(pts, 1, start) \o s \o SubSeq(pts, end + 1, Len(pts)) :
       s \in BucketOrders(SubSeq(pts, start + 1, end), bucketSize, axis)}

\* ------------------------------------------------------------- append
\* cap(r.nodes) once the arena holds need nodes: append doubles a full slice
RECURSIVE GrowCap(_, _)
GrowCap(cap, need) ==
    IF need <= cap THEN cap
    ELSE GrowCap(IF cap = 0 THEN need ELSE 2 * cap, need)

\* How many of the next appends land in the array n points into: from the
\* append that outgrows cap on, r.nodes is a copy and writes through n miss it.
Fit(ns, cap) == IF cap > Len(ns) THEN cap - Len(ns) ELSE 0

\* ------------------------------------------------------------ setLeafNode
LeafOf(pts, pos) ==
    LET p == GetPointAt(pts, pos)
    IN NewNode(pos, pos + 1, 0, TRUE,
               [MinX |-> p[1], MinY |-> p[2], MaxX |-> p[1], MaxY |-> p[2]])

\* setLeafNode without its n.height = 1
setLeafNodeKeepsHeight(ns, cap, pts, nodeIndex) ==
    LET n == NodeAt(ns, nodeIndex)
        cnt == n.end - n.start
        kept == minInt(cnt, Fit(ns, cap))
        childIndex == Len(ns)
        n2 == [n EXCEPT !.childrenLength = cnt,
                        !.children = [k \in 1 .. MAX_POSSIBLE_ENTRIES |->
                                        IF k <= kept THEN childIndex + k - 1 ELSE @[k]]]
        leaves == [k \in 1 .. cnt |-> LeafOf(pts, n.start + k - 1)]
    IN [nodes |-> [ns EXCEPT ![nodeIndex + 1] = n2] \o leaves,
        cap |-> GrowCap(cap, Len(ns) + cnt)]

setLeafNode(ns, cap, pts, nodeIndex) ==
    LET n == NodeAt(ns, nodeIndex)
        cnt == n.end - n.start
        kept == minInt(cnt, Fit(ns, cap))
        childIndex == Len(ns)
        n2 == [n EXCEPT !.childrenLength = cnt,
                        !.height = 1,
                        !.children = [k \in 1 .. MAX_POSSIBLE_ENTRIES |->
                                        IF k <= kept THEN childIndex + k - 1 ELSE @[k]]]
        leaves == [k \in 1 .. cnt |-> LeafOf(pts, n.start + k - 1)]
    IN [nodes |-> [ns EXCEPT ![nodeIndex + 1] = n2] \o leaves,
        cap |-> GrowCap(cap, Len(ns) + cnt)]

\* ----------------------------------------------------- buildNodeDownwards
\* target number of slices, math.Ceil(N / math.Pow(MAX_ENTRIES, height-1))
Slices(N, maxEntries, height) ==
    IF height >= 1 THEN CeilDiv(N, Pow(maxEntries, height - 1))
    ELSE N * Pow(maxEntries, 1 - height)

\* the [start, end) of the children, in the order the two loops append them
RECURSIVE InnerRanges(_, _, _, _)
InnerRanges(nstart, j, right2, N2) ==
    IF j >= right2 THEN <<>>
    ELSE <<<<nstart + j, nstart + minInt(j + N2, right2)>>>>
           \o InnerRanges(nstart, j + N2, right2, N2)

RECURSIVE ChildRanges(_, _, _, _, _)
ChildRanges(nstart, i, N, N1, N2) ==
    IF i >= N THEN <<>>
    ELSE InnerRanges(nstart, i, minInt(i + N1, N), N2)
           \o ChildRanges(nstart, i + N1, N, N1, N2)

\* the ySorter runs, one per X bucket: the point sequences they may leave
RECURSIVE SortYBuckets(_, _, _, _, _, _)
SortYBuckets(pts, nstart, i, N, N1, N2) ==
    IF i >= N THEN {pts}
    ELSE UNION {SortYBuckets(p2, nstart, i + N1, N, N1, N2) :
                  p2 \in Sort(pts, nstart + i, nstart + minInt(i + N1, N), N2, "y")}

\* What one call may do: the arena, its capacity, the points and deltaNodes.
buildNodeDownwards(ns, cap, pts, maxEntries, nodeIndex, isSorted) ==
    LET n == NodeAt(ns, nodeIndex)
        N == n.end - n.start
    IN IF n.isLeaf
       THEN {[nodes |-> ns, cap |-> cap, points |-> pts, deltaNodes |-> 0,
              panic |-> FALSE]}
       ELSE IF N <= maxEntries
       THEN LET s == setLeafNode(ns, cap, pts, nodeIndex)
            IN {[nodes |-> s.nodes, cap |-> s.cap, points |-> pts,
                 deltaNodes |-> -1, panic |-> FALSE]}
       ELSE LET M == Slices(N, maxEntries, n.height)
                N2 == CeilDiv(N, M)
                N1 == N2 * CeilSqrt(M)
                sortedX == IF isSorted THEN {pts}
                           ELSE Sort(pts, n.start, n.end, N1, "x")
                ranges == ChildRanges(n.start, 0, N, N1, N2)
                cnt == Len(ranges)
                kept == minInt(cnt, Fit(ns, cap))
                childIndex == Len(ns)
                n2 == [n EXCEPT !.childrenLength = n.childrenLength + kept,
                                !.children = [k \in 1 .. MAX_POSSIBLE_ENTRIES |->
                                                IF k <= kept THEN childIndex + k - 1
                                                ELSE @[k]]]
                children == [k \in 1 .. cnt |->
                               NewNode(ranges[k][1], ranges[k][2], n.height - 1,
                                       FALSE, ZeroBBox)]
            IN {[nodes |-> [ns EXCEPT ![nodeIndex + 1] = n2] \o children,
                 cap |-> GrowCap(cap, Len(ns) + cnt),
                 points |-> p3,
                 deltaNodes |-> n.childrenLength + cnt - 1,
                 panic |-> cnt > MAX_POSSIBLE_ENTRIES] :
                  p3 \in UNION {SortYBuckets(p2, n.start, 0, N, N1, N2) : p2 \in sortedX}}

\* --------------------------------------------------- computeBBoxDownwards
\* The recursion never returns when a node is its own descendant.
RECURSIVE Recurs(_, _, _)
Recurs(ns, nodeIndex, path) ==
    LET n == NodeAt(ns, nodeIndex)
        visited == IF n.childrenLength = 0 THEN {1}
                   ELSE 1 .. n.childrenLength
    IN /\ ~n.isLeaf
       /\ \/ nodeIndex \in path
          \/ \E k \in visited : Recurs(ns, n.children[k], path \cup {nodeIndex})

\* computeBBoxDownwards with its loop stopping one child early
RECURSIVE computeBBoxSkipsLast(_, _)
computeBBoxSkipsLast(ns, nodeIndex) ==
    LET n == NodeAt(ns, nodeIndex)
        RECURSIVE Merge(_, _)
        Merge(bbox, i) ==
            IF i >= n.childrenLength - 1 THEN bbox
            ELSE Merge(extend(bbox, computeBBoxSkipsLast(ns, n.children[i + 1])), i + 1)
    IN IF n.isLeaf THEN n.BBox
       ELSE Merge(computeBBoxSkipsLast(ns, n.children[1]), 1)

RECURSIVE computeBBoxDownwards(_, _)
computeBBoxDownwards(ns, nodeIndex) ==
    LET n == NodeAt(ns, nodeIndex)
        RECURSIVE Merge(_, _)
        Merge(bbox, i) ==
            IF i >= n.childrenLength THEN bbox
            ELSE Merge(extend(bbox, computeBBoxDownwards(ns, n.children[i + 1])), i + 1)
    IN IF n.isLeaf THEN n.BBox
       ELSE Merge(computeBBoxDownwards(ns, n.children[1]), 1)

\* the nodes the recursion from the root reaches
RECURSIVE Below(_, _)
Below(ns, nodeIndex) ==
    LET n == NodeAt(ns, nodeIndex)
    IN {nodeIndex} \cup
       (IF n.isLeaf THEN {}
        ELSE UNION {Below(ns, n.children[k]) :
                      k \in (IF n.childrenLength = 0 THEN {1} ELSE 1 .. n.childrenLength)})

\* r.nodes after computeBBoxDownwards(0)
WithBBoxes(ns) ==
    LET reached == Below(ns, 0)
    IN [k \in 1 .. Len(ns) |->
          IF (k - 1) \in reached
          THEN [ns[k] EXCEPT !.BBox = computeBBoxDownwards(ns, k - 1)]
          ELSE ns[k]]

\* ------------------------------------------------------ computeDistances
Sq(v) == v * v

computeDistances(n, x, y) ==
    IF n.isLeaf
    THEN LET d == Sq(x - n.BBox.MinX) + Sq(y - n.BBox.MinY)
         IN [mind |-> d, maxd |-> d]
    ELSE LET sx == sortFloats(Sq(x - n.BBox.MinX), Sq(x - n.BBox.MaxX))
             sy == sortFloats(Sq(y - n.BBox.MinY), Sq(y - n.BBox.MaxY))
             minx == sx[1]
             maxx == sx[2]
             miny == sy[1]
             maxy == sy[2]
             sideX == Sq(n.BBox.MaxX - n.BBox.MinX)
             sideY == Sq(n.BBox.MaxY - n.BBox.MinY)
         IN [mind |-> IF maxx < sideX /\ maxy < sideY THEN 0
                      ELSE IF maxx < sideX THEN miny
                      ELSE IF maxy < sideY THEN minx
                      ELSE minx + miny,
             maxd |-> maxx + maxy]

\* ---------------------------------------------------------------- pools
\* an inner item pool as the registry holds it: size items, free ones
NewItemPool(capacity) == [free |-> 1 .. capacity, size |-> capacity]

\* queueItemPoolPool.take(): the inner pool at the head of the registry, its
\* items with the zero fields
Borrow(p) ==
    [free |-> p.free, size |-> p.size,
     node |-> [k \in 1 .. p.size |-> Nil],
     distance |-> [k \in 1 .. p.size |-> 0],
     taken |-> 0, given |-> 0, misuse |-> FALSE]

Least(S) == CHOOSE v \in S : \A w \in S : v <= w

\* queueItemPool.take(): the items it may hand out.  A pool with no free item
\* allocates one.  Free items differ only in whether minItem still points at
\* them, so the choice is between that item and one other.
takeable(p, minItem) ==
    IF p.free = {} THEN {p.size + 1}
    ELSE (p.free \cap {minItem}) \cup
         (IF p.free \ {minItem} = {} THEN {} ELSE {Least(p.free \ {minItem})})

\* the pool after take() handed out id and the caller set its two fields
take(p, id, nodeIndex, dist) ==
    [p EXCEPT !.free = @ \ {id},
              !.size = IF id > @ THEN id ELSE @,
              !.node = IF id > Len(@) THEN Append(@, nodeIndex)
                       ELSE [@ EXCEPT ![id] = nodeIndex],
              !.distance = IF id > Len(@) THEN Append(@, dist)
                           ELSE [@ EXCEPT ![id] = dist],
              !.taken = @ + 1]

\* queueItemPool.giveBack(item)
giveBack(p, id) ==
    [p EXCEPT !.free = @ \cup {id},
              !.given = @ + 1,
              !.misuse = @ \/ id \in p.free]

\* -------------------------------------------------------------- load
\* load with the test of r.built ahead of the test of the length
loadTestsBuiltFirst(pts, isSorted) ==
    /\ pc = "idle"
    /\ IF built
       THEN /\ pc' = "fatal"
            /\ lastLoad' = [lastLoad EXCEPT !.len = Len_(pts), !.wasBuilt = built,
                                            !.outcome = "fatal"]
            /\ UNCHANGED <<options, treeVars, poolVars, bld, queryVars>>
       ELSE IF Len_(pts) = 0
       THEN /\ lastLoad' = [lastLoad EXCEPT !.len = 0, !.wasBuilt = built,
                                            !.outcome = "returned"]
            /\ UNCHANGED <<options, treeVars, poolVars, pc, bld, queryVars>>
       ELSE /\ built' = TRUE
            /\ points' = pts
            /\ nodesCap' = computeSize(Len_(pts))
            /\ nodes' = <<NewNode(0, Len_(pts),
                                  CeilLog(options.MAX_ENTRIES, Len_(pts)),
                                  FALSE, ZeroBBox)>>
            /\ bld' = [i |-> 0, nodesRemaining |-> 1, isSorted |-> isSorted]
            /\ pc' = "build"
            /\ lastLoad' = [builds |-> lastLoad.builds + 1, len |-> Len_(pts),
                            wasBuilt |-> built, outcome |-> "building"]
            /\ UNCHANGED <<options, poolVars, queryVars>>

load(pts, isSorted) ==
    /\ pc = "idle"
    /\ IF Len_(pts) = 0
       THEN /\ lastLoad' = [lastLoad EXCEPT !.len = 0, !.wasBuilt = built,
                                            !.outcome = "returned"]
            /\ UNCHANGED <<options, treeVars, poolVars, pc, bld, queryVars>>
       ELSE IF built
       THEN /\ pc' = "fatal"
            /\ lastLoad' = [lastLoad EXCEPT !.len = Len_(pts), !.wasBuilt = built,
                                            !.outcome = "fatal"]
            /\ UNCHANGED <<options, treeVars, poolVars, bld, queryVars>>
       ELSE /\ built' = TRUE
            /\ points' = pts
            /\ nodesCap' = computeSize(Len_(pts))
            /\ nodes' = <<NewNode(0, Len_(pts),
                                  CeilLog(options.MAX_ENTRIES, Len_(pts)),
                                  FALSE, ZeroBBox)>>
            /\ bld' = [i |-> 0, nodesRemaining |-> 1, isSorted |-> isSorted]
            /\ pc' = "build"
            /\ lastLoad' = [builds |-> lastLoad.builds + 1, len |-> Len_(pts),
                            wasBuilt |-> built, outcome |-> "building"]
            /\ UNCHANGED <<options, poolVars, queryVars>>

LoadFrom(inputs, isSorted) ==
    \E pts \in (IF built THEN ReloadInputs ELSE inputs) : load(pts, isSorted)

Load == LoadFrom(BuildInputs, FALSE)

LoadSortedArray == LoadFrom(BuildInputs, TRUE)

\* one turn of the loop of build
BuildLoop ==
    /\ pc = "build"
    /\ bld.nodesRemaining > 0
    /\ IF bld.i >= Len(nodes)
       THEN /\ pc' = "panic"
            /\ UNCHANGED <<treeVars, bld>>
       ELSE \E o \in buildNodeDownwards(nodes, nodesCap, points, options.MAX_ENTRIES,
                                        bld.i, bld.isSorted) :
              /\ nodes' = o.nodes
              /\ nodesCap' = o.cap
              /\ points' = o.points
              /\ bld' = [i |-> bld.i + 1,
                         nodesRemaining |-> bld.nodesRemaining + o.deltaNodes,
                         isSorted |-> FALSE]
              /\ pc' = IF o.panic THEN "panic" ELSE "build"
              /\ UNCHANGED built
    /\ UNCHANGED <<options, poolVars, queryVars, lastLoad>>

\* the end of build (computeBBoxDownwards) and of load (the pools)
FinishLoad ==
    /\ pc = "build"
    /\ bld.nodesRemaining <= 0
    /\ IF Recurs(nodes, 0, {})
       THEN /\ pc' = "panic"
            /\ UNCHANGED <<treeVars, poolVars, bld, lastLoad>>
       ELSE LET ns == WithBBoxes(nodes)
                capacity == NodeAt(ns, 0).height * options.MAX_ENTRIES
            IN /\ nodes' = ns
               /\ queueItemPoolPool' = <<NewItemPool(capacity), NewItemPool(capacity)>>
               /\ queuePool' = <<{}, {}>>
               /\ pc' = "idle"
               /\ bld' = NoBuild
               /\ lastLoad' = [lastLoad EXCEPT !.outcome = "built"]
               /\ UNCHANGED <<nodesCap, points, built>>
    /\ UNCHANGED <<options, queryVars>>

\* ------------------------------------------------ findNearestPointWithin
\* lines 78-97: borrow the queue and the pool, bound the root, push it
findNearestPointWithin(x, y, d, radius) ==
    /\ pc = "idle"
    /\ result' = [NoResult EXCEPT !.x = x, !.y = y, !.radius = radius,
                                  !.status = "running"]
    /\ IF Len(queuePool) = 0 \/ Len(queueItemPoolPool) = 0 \/ Len(nodes) = 0
       THEN /\ pc' = "panic"
            /\ UNCHANGED <<poolVars, qry, sq, pool, lastLoad>>
       ELSE LET rootNode == NodeAt(nodes, 0)
                b == computeDistances(rootNode, x, y)
                distanceUpperBound == IF b.maxd < d THEN b.maxd ELSE d
                queueItemPool == Borrow(Head(queueItemPoolPool))
            IN /\ queuePool' = Tail(queuePool)
               /\ queueItemPoolPool' = Tail(queueItemPoolPool)
               /\ qry' = [NoQuery EXCEPT !.x = x, !.y = y, !.radius = radius,
                                         !.distanceUpperBound = distanceUpperBound]
               /\ pc' = "search"
               /\ lastLoad' = [lastLoad EXCEPT !.len = 0, !.wasBuilt = FALSE,
                                               !.outcome = "none"]
               /\ IF b.mind < distanceUpperBound
                  THEN \E id \in takeable(queueItemPool, Nil) :
                         /\ pool' = take(queueItemPool, id, 0, b.mind)
                         /\ sq' = Head(queuePool) \cup {id}
                  ELSE /\ pool' = queueItemPool
                       /\ sq' = Head(queuePool)
    /\ UNCHANGED <<options, treeVars, bld>>

FindNearestPointWithin ==
    \E x \in QueryXs, y \in QueryYs, d \in 0 .. MaxRadius :
        findNearestPointWithin(x, y, d * d, d)

FindNearestPoint ==
    \E x \in QueryXs, y \in QueryYs : findNearestPointWithin(x, y, Inf, Nil)

\* the items heap.Pop may return: those of the least distance
Poppable == {id \in sq : \A other \in sq : pool.distance[id] <= pool.distance[other]}

\* lines 99-110 and 129: pop an item; stop, record a leaf, or turn to its children
SearchPop ==
    /\ pc = "search"
    /\ sq # {}
    /\ \E item \in Poppable :
         LET currentDistance == pool.distance[item]
         IN /\ sq' = sq \ {item}
            /\ IF qry.minItem # Nil /\ currentDistance > qry.distanceLowerBound
               THEN /\ pool' = giveBack(pool, item)
                    /\ pc' = "drain"
                    /\ UNCHANGED qry
               ELSE IF NodeAt(nodes, pool.node[item]).isLeaf
               THEN /\ qry' = [qry EXCEPT !.distanceLowerBound = currentDistance,
                                          !.minItem = item]
                    /\ pool' = giveBack(pool, item)
                    /\ pc' = "search"
               ELSE /\ qry' = [qry EXCEPT !.item = item, !.i = 0]
                    /\ pc' = "children"
                    /\ UNCHANGED pool
    /\ UNCHANGED <<options, treeVars, poolVars, bld, result, lastLoad>>

\* lines 112-127: one child of the popped node
SearchChild ==
    /\ pc = "children"
    /\ qry.i < NodeAt(nodes, pool.node[qry.item]).childrenLength
    /\ LET nodeIndex == NodeAt(nodes, pool.node[qry.item]).children[qry.i + 1]
           b == computeDistances(NodeAt(nodes, nodeIndex), qry.x, qry.y)
       IN /\ IF b.mind <= qry.distanceUpperBound
             THEN \E id \in takeable(pool, qry.minItem) :
                    /\ pool' = take(pool, id, nodeIndex, b.mind)
                    /\ sq' = sq \cup {id}
             ELSE UNCHANGED <<pool, sq>>
          /\ qry' = [qry EXCEPT !.i = @ + 1,
                                !.distanceUpperBound =
                                    IF b.maxd < @ THEN b.maxd ELSE @]
    /\ UNCHANGED <<options, treeVars, poolVars, pc, bld, result, lastLoad>>

\* line 129 after the children
SearchGiveBack ==
    /\ pc = "children"
    /\ qry.i >= NodeAt(nodes, pool.node[qry.item]).childrenLength
    /\ pool' = giveBack(pool, qry.item)
    /\ qry' = [qry EXCEPT !.item = Nil, !.i = 0]
    /\ pc' = "search"
    /\ UNCHANGED <<options, treeVars, poolVars, sq, bld, result, lastLoad>>

\* findNearestPointWithin without the loop of lines 133-136
drainsNothing(p, items) == [pool |-> p, sq |-> items]

\* lines 133-136: pop and give back until the queue is empty
RECURSIVE drain(_, _)
drain(p, items) ==
    IF items = {} THEN [pool |-> p, sq |-> items]
    ELSE LET id == CHOOSE i \in items : \A o \in items : p.distance[i] <= p.distance[o]
         IN drain(giveBack(p, id), items \ {id})

\* lines 133-150: drain the queue, return the pool and the queue, report
SearchReturn ==
    /\ \/ pc = "drain"
       \/ pc = "search" /\ sq = {}
    /\ LET after == drain(pool, sq)
           drained == after.pool
       IN /\ queueItemPoolPool' =
                Append(queueItemPoolPool, [free |-> drained.free, size |-> drained.size])
          /\ queuePool' = Append(queuePool, after.sq)
          /\ pool' = [drained EXCEPT !.node = <<>>, !.distance = <<>>]
          /\ sq' = {}
          /\ result' =
                IF qry.minItem = Nil
                THEN [result EXCEPT !.status = "returned",
                                    !.drained = drained.given - pool.given]
                ELSE LET n == NodeAt(nodes, drained.node[qry.minItem])
                     IN [result EXCEPT !.x1 = n.BBox.MaxX,
                                       !.y1 = n.BBox.MaxY,
                                       !.d1 = Sqrt(qry.distanceUpperBound),
                                       !.found = TRUE,
                                       !.status = "returned",
                                       !.drained = drained.given - pool.given]
    /\ qry' = NoQuery
    /\ pc' = "idle"
    /\ UNCHANGED <<options, treeVars, bld, lastLoad>>

\* ------------------------------------------------------- specifications
\* the build
Next == Load \/ LoadSortedArray \/ BuildLoop \/ FinishLoad

Spec == Init /\ [][Next]_vars

\* the build and the queries, on points of a line
LoadLine == LoadFrom(QueryInputs, FALSE)

LoadSortedLine == LoadFrom(QueryInputs, TRUE)

NextQuery ==
    \/ LoadLine
    \/ LoadSortedLine
    \/ BuildLoop
    \/ FinishLoad
    \/ FindNearestPoint
    \/ FindNearestPointWithin
    \/ SearchPop
    \/ SearchChild
    \/ SearchGiveBack
    \/ SearchReturn

SpecQuery == Init /\ [][NextQuery]_vars

\* the same on more points: trees of height 3
LoadDeep == LoadFrom(DeepInputs, FALSE)

LoadSortedDeep == LoadFrom(DeepInputs, TRUE)

NextDeep ==
    \/ LoadDeep
    \/ LoadSortedDeep
    \/ BuildLoop
    \/ FinishLoad
    \/ FindNearestPoint
    \/ FindNearestPointWithin
    \/ SearchPop
    \/ SearchChild
    \/ SearchGiveBack
    \/ SearchReturn

SpecDeep == Init /\ [][NextDeep]_vars

\* --------------------------------------------------------------- claims
Dist2(p, x, y) == Sq(x - p[1]) + Sq(y - p[2])

Smallest(S) == CHOOSE v \in S : \A w \in S : v <= w
Largest(S) == CHOOSE v \in S : \A w \in S : v >= w

\* the brute-force minimum squared distance from (x, y) to a loaded point
BruteForce(x, y) == Smallest({Dist2(points[k], x, y) : k \in 1 .. Len(points)})

Loaded == built /\ pc = "idle"
Returned == pc = "idle" /\ result.status = "returned"
Root == NodeAt(nodes, 0)
Kids(n) == {NodeAt(nodes, n.children[k]) : k \in 1 .. n.childrenLength}

\* C1: on a tree of N >= 1 points, FindNearestPoint reports found = true and
\* the brute-force minimum distance.
C1_NearestMatchesBruteForce ==
    (Returned /\ result.radius = Nil /\ Len(points) >= 1)
        => /\ result.found
           /\ result.d1 = Sqrt(BruteForce(result.x, result.y))

\* C2: on a non-empty tree, FindNearestPointWithin(x, y, r) reports not-found
\* iff the brute-force minimum distance is above r, and otherwise that distance.
C2_WithinMatchesBruteForce ==
    (Returned /\ result.radius # Nil /\ Len(points) >= 1)
        => /\ result.found <=> BruteForce(result.x, result.y) <= Sq(result.radius)
           /\ result.found => result.d1 = Sqrt(BruteForce(result.x, result.y))

\* C3: after a load of no points, every query completes normally and reports
\* found = false.
C3_EmptyTreeQueriesReportNotFound ==
    (~built /\ lastLoad.outcome = "returned" /\ result.status # "none")
        => /\ pc # "panic"
           /\ ~result.found

ReloadStep ==
    built /\ pc = "idle" /\ lastLoad' # lastLoad /\ pc' # "search" /\ result' = result

\* C5 as amended: a load call on a built tree is rejected when it is given
\* points and returns normally when it is given none; either way the arena,
\* the points and the pools are unchanged, and a build happens at most once.
C5_WriteOnce ==
    /\ [](lastLoad.builds <= 1)
    /\ [][ReloadStep =>
            /\ pc' = IF lastLoad'.len = 0 THEN "idle" ELSE "fatal"
            /\ lastLoad'.outcome = IF lastLoad'.len = 0 THEN "returned" ELSE "fatal"
            /\ lastLoad'.builds = lastLoad.builds
            /\ UNCHANGED <<treeVars, poolVars>>]_vars

\* C5 as stated: every load call on a built tree is rejected, whatever it is given.
C5_EveryLoadAfterBuildIsRejected ==
    lastLoad.wasBuilt => lastLoad.outcome = "fatal"

C5_Witness ==
    /\ lastLoad.wasBuilt
    /\ lastLoad.len = 0
    /\ lastLoad.outcome = "returned"
    /\ Len(nodes) > 1

\* C6: after Load, a leaf's box is its point, an internal node's box is the
\* componentwise min/max of its children's boxes, and the root's box is the
\* tight box of all the points.
C6_BBoxes ==
    Loaded =>
        /\ \A k \in 1 .. Len(nodes) :
             LET n == nodes[k]
             IN IF n.isLeaf
                THEN LET p == points[n.start + 1]
                     IN n.BBox = [MinX |-> p[1], MinY |-> p[2],
                                  MaxX |-> p[1], MaxY |-> p[2]]
                ELSE /\ n.childrenLength >= 1
                     /\ n.BBox = [MinX |-> Smallest({c.BBox.MinX : c \in Kids(n)}),
                                  MinY |-> Smallest({c.BBox.MinY : c \in Kids(n)}),
                                  MaxX |-> Largest({c.BBox.MaxX : c \in Kids(n)}),
                                  MaxY |-> Largest({c.BBox.MaxY : c \in Kids(n)})]
        /\ LET xs == {points[k][1] : k \in 1 .. Len(points)}
               ys == {points[k][2] : k \in 1 .. Len(points)}
           IN Root.BBox = [MinX |-> Smallest(xs), MinY |-> Smallest(ys),
                           MaxX |-> Largest(xs), MaxY |-> Largest(ys)]

C6_Witness ==
    /\ Loaded
    /\ Root.height = 2
    /\ Root.childrenLength >= 2
    /\ Root.BBox.MinX < Root.BBox.MaxX
    /\ Root.BBox.MinY < Root.BBox.MaxY
    /\ \E c \in Kids(Root) : c.BBox # Root.BBox

\* C7: when a query reports found, (x1, y1) is a loaded point whose distance
\* to the query point is d1.
C7_ReturnedPointIsAtReturnedDistance ==
    (Returned /\ result.found)
        => \E k \in 1 .. Len(points) :
             /\ points[k] = <<result.x1, result.y1>>
             /\ Sqrt(Dist2(points[k], result.x, result.y)) = result.d1

\* C8: in a query on a built tree no item is given back twice or before it
\* is taken; when the query returns every item taken is given back, the
\* queue is empty, and the item pool and the queue are back in their
\* registries with every item free.
C8_PoolDiscipline ==
    /\ ~pool.misuse
    /\ pool.given <= pool.taken
    /\ Returned =>
         /\ pool.taken = pool.given
         /\ Len(queueItemPoolPool) = 2
         /\ Len(queuePool) = 2
         /\ \A k \in 1 .. Len(queuePool) : queuePool[k] = {}
         /\ \A k \in 1 .. Len(queueItemPoolPool) :
              queueItemPoolPool[k].free = 1 .. queueItemPoolPool[k].size

\* the early break, with items left in the queue
C8_Witness ==
    /\ Returned
    /\ result.found
    /\ result.drained > 0
    /\ pool.taken > 2

\* the depths of the leaves below a node
RECURSIVE LeafDepths(_, _)
LeafDepths(nodeIndex, depth) ==
    LET n == NodeAt(nodes, nodeIndex)
    IN IF n.isLeaf THEN {depth}
       ELSE UNION {LeafDepths(n.children[k], depth + 1) : k \in 1 .. n.childrenLength}

\* C9: the built tree is balanced: the leaves are at one depth, a node over
\* leaves has height 1, any other internal node has 1 + the height of each child.
C9_Balanced ==
    Loaded =>
        /\ Cardinality(LeafDepths(0, 0)) = 1
        /\ \A k \in 1 .. Len(nodes) :
             LET n == nodes[k]
             IN n.isLeaf \/
                  IF \A c \in Kids(n) : c.isLeaf THEN n.height = 1
                  ELSE \A c \in Kids(n) : n.height = 1 + c.height

\* C10: the build creates at most 2*N nodes, so the arena stays within the
\* capacity computeSize(N) it was made with.
C10_ArenaWithinCapacity ==
    built => /\ Len(nodes) <= 2 * Len(points)
             /\ nodesCap = computeSize(Len(points))

====
